---- MODULE Spec2Model ----
(***************************************************************************)
(* Model of main-git.py: a FastAPI service that keeps a table of crypto    *)
(* symbols (Crypto rows in a Gino/PostgreSQL store) and enriches each row  *)
(* with metadata looked up by fetch_coin_metadata, a cache-aside resolver  *)
(* over Redis (TTL 3600 s) and the Coingecko /search endpoint.             *)
(*                                                                         *)
(* Every request handler is an asyncio coroutine; each `await` is a point  *)
(* where another request may run.  One action of the model is the code of  *)
(* a handler between two awaits, together with the effect of the awaited   *)
(* call on the store, the cache or the external source.                    *)
(***************************************************************************)
EXTENDS Integers, Sequences, FiniteSets, TLC

VARIABLES
    db,        \* rows of table "cryptos"
    nextId,    \* next value of the serial primary key
    cache,     \* Redis: set of [key, value, expires]
    now,       \* wall clock, seconds
    catalog,   \* what the Coingecko search currently answers ("coins")
    task,      \* local state of each in-flight request
    written,   \* history: per canonical symbol, the last resolver cache write
    selSymbol, selCoins, selResult   \* inputs/result of the selection on its own

vars == <<db, nextId, cache, now, catalog, task, written,
          selSymbol, selCoins, selResult>>

----------------------------------------------------------------------------
(* Bounds *)

MaxId    == 2      \* rows ever inserted
MaxTicks == 2      \* clock advances
MaxCoins == 3      \* length of a search answer

Tasks == {"t1", "t2"}

----------------------------------------------------------------------------
(* Strings are tuples of one-character strings. *)

LowerChar(c) == IF c = "A" THEN "a" ELSE c
UpperChar(c) == IF c = "a" THEN "A" ELSE c

Lower(s) == [i \in DOMAIN s |-> LowerChar(s[i])]

\* variant: the symbol is stored as the client spelled it
UpperKept(s) == s

Upper(s) == [i \in DOMAIN s |-> UpperChar(s[i])]

\* symbols fetch_coin_metadata is called with
CallSymbols == { <<"a">>, <<"A">>, <<"a", "2">> }

\* symbols a client sends to the handlers
ReqSymbols == { <<"a">>, <<"A", "2">> }

\* entries of the "coins" list of a search answer
Candidates ==
    { [symbol |-> <<"A">>,      name |-> "n1"],
      [symbol |-> <<"a">>,      name |-> "n2"],
      [symbol |-> <<"A", "2">>, name |-> "n3"] }

RECURSIVE SeqsUpTo(_, _)
SeqsUpTo(S, n) ==
    IF n = 0 THEN { <<>> }
    ELSE LET shorter == SeqsUpTo(S, n - 1)
         IN  shorter \cup { Append(q, x) : q \in shorter, x \in S }

\* every search answer the selection is tried on
Answers == SeqsUpTo(Candidates, MaxCoins)

\* the listings Coingecko moves between while requests run: nothing listed;
\* a near match listed before the exact one; the coin relisted under another
\* spelling and name, the other coin gone
Catalogs ==
    { <<>>,
      << [symbol |-> <<"A", "2">>, name |-> "n3"], [symbol |-> <<"A">>, name |-> "n1"] >>,
      << [symbol |-> <<"a">>, name |-> "n2"] >> }

\* the subset the handlers are run against
Listings == { c \in Catalogs : Len(c) # 1 }

\* Python None for an Optional[dict]
NoCoin == [symbol |-> <<>>, name |-> "None"]

TTL == 3600
TickLen == TTL \div 2

----------------------------------------------------------------------------
(* Redis, as used through redis_client.get / redis_client.set(..., ex=) *)

\* redis GET answers None for an absent or expired key; None is falsy like ""
NoValue == <<>>

RedisGet(key) ==
    IF \E e \in cache : e.key = key /\ now < e.expires
    THEN (CHOOSE e \in cache : e.key = key /\ now < e.expires).value
    ELSE NoValue

\* variant: the expiry is taken in the wrong unit
RedisSetHalf(key, value, ex) ==
    { e \in cache : e.key # key }
        \cup { [key |-> key, value |-> value, expires |-> now + (ex \div 2)] }

\* variant: SET NX, a live entry is kept
RedisSetNX(key, value, ex) ==
    IF \E e \in cache : e.key = key /\ now < e.expires
    THEN cache
    ELSE { e \in cache : e.key # key }
            \cup { [key |-> key, value |-> value, expires |-> now + ex] }

\* variant: the expiry is counted twice
RedisSetDouble(key, value, ex) ==
    { e \in cache : e.key # key }
        \cup { [key |-> key, value |-> value, expires |-> now + ex + ex] }

RedisSet(key, value, ex) ==
    { e \in cache : e.key # key }
        \cup { [key |-> key, value |-> value, expires |-> now + ex] }

\* json.dumps / json.loads of a coin
Dumps(coin) == <<coin.symbol, coin.name>>
Loads(text) == [symbol |-> text[1], name |-> text[2]]

----------------------------------------------------------------------------
(* fetch_coin_metadata *)

\* variant: the key keeps the caller's spelling
CacheKeyRaw(symbol) == <<"coingecko:">> \o symbol

\* key = f"coingecko:{symbol.lower()}"
CacheKey(symbol) == <<"coingecko:">> \o Lower(symbol)

\* variant: the candidate only has to start with the symbol
StartsWith(x, y) == Len(y) <= Len(x) /\ SubSeq(x, 1, Len(y)) = y

RECURSIVE FirstMatchPrefix(_, _)
FirstMatchPrefix(coins, symbol) ==
    IF coins = <<>> THEN NoCoin
    ELSE IF StartsWith(Lower(Head(coins).symbol), Lower(symbol)) THEN Head(coins)
    ELSE FirstMatchPrefix(Tail(coins), symbol)

\* next((coin for coin in coins if coin["symbol"].lower() == symbol.lower()), None)
RECURSIVE FirstMatch(_, _)
FirstMatch(coins, symbol) ==
    IF coins = <<>> THEN NoCoin
    ELSE IF Lower(Head(coins).symbol) = Lower(symbol) THEN Head(coins)
    ELSE FirstMatch(Tail(coins), symbol)

\* variant: the result is stored whether or not a coin was found
TruthyAlways(coin) == TRUE

\* truth value of an Optional[dict], and of the cached string
Truthy(coin) == coin # NoCoin
TruthyText(text) == text # NoValue

\* response.status_code values the search can answer with
HttpStatuses == {200, 429, 500}

\* variant: the status is not looked at
StatusOkAny(status_code) == TRUE

\* line 80: if response.status_code != 200: raise HTTPException(502)
StatusOk(status_code) == status_code = 200

----------------------------------------------------------------------------
(* Requests *)

\* the selection has not run
Unselected == [symbol |-> <<>>, name |-> "unselected"]

NoWrite == [at |-> -1, coin |-> NoCoin, symbol |-> <<>>]

\* the two strings are equal up to the case of their letters
EqIgnoreCase(x, y) ==
    /\ Len(x) = Len(y)
    /\ \A i \in 1..Len(x) : x[i] = y[i] \/ {x[i], y[i]} = {"a", "A"}

\* history: the last write for this symbol that is less than an hour old
LastWrite(symbol) ==
    IF Upper(symbol) \in DOMAIN written THEN written[Upper(symbol)] ELSE NoWrite

\* history: the source lists a coin with this symbol right now
SourceLists(symbol) ==
    \E i \in 1..Len(catalog) : EqIgnoreCase(catalog[i].symbol, symbol)

IdleTask ==
    [kind |-> "none", pc |-> "idle", symbol |-> <<>>, id |-> 0,
     metadata |-> NoCoin, status |-> 0, detail |-> "none",
     \* history of the request, for the properties
     hit |-> FALSE, ext |-> 0, cr |-> 0, cw |-> 0, dbw |-> 0,
     dup |-> FALSE, srcHas |-> FALSE, resp |-> "none", seen |-> NoWrite,
     fresh |-> FALSE, down |-> FALSE, bare |-> FALSE]

\* the handler's next await once fetch_coin_metadata has returned a coin
AfterFetch(kind) ==
    CASE kind = "create"  -> "c_insert"
      [] kind = "update"  -> "u_apply"
      [] kind = "refresh" -> "r_apply"
      [] kind = "resolve" -> "returned"

\* the request ends with an HTTP status; the coroutine's locals are gone
Ended(t, status, detail) ==
    [task[t] EXCEPT !.pc = "done", !.status = status, !.detail = detail,
                    !.metadata = NoCoin, !.seen = NoWrite,
                    !.symbol = <<>>, !.id = 0]

Row(id) == CHOOSE r \in db : r.id = id
HasRow(id) == \E r \in db : r.id = id

Canon == { Upper(s) : s \in CallSymbols \cup ReqSymbols }

TypeOK ==
    /\ nextId \in 1..(MaxId + 1)
    /\ now \in 0..(MaxTicks * TickLen)
    /\ catalog \in Catalogs
    /\ \A r \in db : r.id \in 1..MaxId /\ r.metadata \in Candidates
    /\ \A t \in Tasks : task[t].pc \in
          {"idle", "c_insert", "u_apply", "r_apply", "d_delete",
           "get", "http", "set", "returned", "done", "hung"}

Init ==
    /\ db = {}
    /\ nextId = 1
    /\ cache = {}
    /\ now = 0
    /\ catalog \in Catalogs
    /\ task = [t \in Tasks |-> IdleTask]
    /\ written = [k \in Canon |-> NoWrite]
    /\ selSymbol = <<>>
    /\ selCoins = <<>>
    /\ selResult = Unselected

SelUnchanged == UNCHANGED <<selSymbol, selCoins, selResult>>

----------------------------------------------------------------------------
(* fetch_coin_metadata, one action per await *)

\* the awaited GET raises when the cache cannot be reached
Raised == <<"raised">>

\* variant: a failed GET is taken for a miss
GetOrMiss(up, key) == IF up THEN RedisGet(key) ELSE NoValue

\* line 73: await redis_client.get(key)
Get(up, key) == IF up THEN RedisGet(key) ELSE Raised

\* lines 70-76: cached = await redis_client.get(key); if cached: return it
CacheGet(t) ==
    /\ task[t].pc = "get"
    /\ \E up \in BOOLEAN :
         LET me     == task[t]
             cached == Get(up, CacheKey(me.symbol))
             \* history: the last write for this symbol still inside its hour,
             \* kept for the resolver's callers; whether the source lists the
             \* symbol right now, kept for these and for refresh
             hist   == [me EXCEPT !.cr = @ + 1,
                                  !.down = ~up,
                                  !.fresh = LastWrite(me.symbol) # NoWrite,
                                  !.seen = IF me.kind = "resolve"
                                           THEN written[Upper(me.symbol)]
                                           ELSE NoWrite,
                                  !.srcHas = me.kind \in {"resolve", "refresh"}
                                             /\ SourceLists(me.symbol)]
         IN  task' = [task EXCEPT ![t] =
                 IF cached = Raised
                 THEN [Ended(t, 500, "redis") EXCEPT !.down = TRUE]
                 ELSE IF TruthyText(cached)
                 THEN [hist EXCEPT !.hit = TRUE,
                                   !.metadata = Loads(cached),
                                   !.pc = AfterFetch(me.kind)]
                 ELSE [hist EXCEPT !.pc = "http"]]
    /\ UNCHANGED <<db, nextId, cache, now, catalog, written>>
    /\ SelUnchanged

\* variant: a bad status is answered by calling the source again
HttpGetRetry(t) ==
    /\ task[t].pc = "http"
    /\ \E status_code \in HttpStatuses :
         LET me        == task[t]
             coin_info == FirstMatch(catalog, me.symbol)
             called    == [me EXCEPT
                             !.ext = @ + 1,
                             !.resp = IF status_code = 200 THEN "ok" ELSE "status",
                             !.srcHas = SourceLists(me.symbol)]
         IN  task' = [task EXCEPT ![t] =
                 IF ~StatusOk(status_code) THEN called
                 ELSE IF Truthy(coin_info)
                 THEN [called EXCEPT !.pc = "set", !.metadata = coin_info]
                 ELSE [called EXCEPT !.pc = "done", !.status = 404,
                                     !.detail = "coin", !.id = 0]]
    /\ UNCHANGED <<db, nextId, cache, now, catalog, written>>
    /\ SelUnchanged

\* lines 77-88 and the caller's `if not metadata`: the search call (which may
\* raise an httpx exception instead of answering), the status check, the
\* selection
HttpGet(t) ==
    /\ task[t].pc = "http"
    /\ \E raised \in BOOLEAN, status_code \in HttpStatuses :
         LET me        == task[t]
             coin_info == FirstMatch(catalog, me.symbol)
             \* history: the call was made, how it ended, what the source lists
             called    == [me EXCEPT
                             !.ext = @ + 1,
                             !.resp = IF raised THEN "transport"
                                      ELSE IF status_code = 200 THEN "ok"
                                      ELSE "status",
                             !.srcHas = SourceLists(me.symbol)]
             ended(status, detail) ==
                 [called EXCEPT !.pc = "done", !.status = status,
                                !.detail = detail, !.id = 0,
                                !.symbol = IF me.kind = "resolve" THEN @ ELSE <<>>]
         IN  task' = [task EXCEPT ![t] =
                 IF raised THEN ended(500, "httpx")
                 ELSE IF ~StatusOk(status_code) THEN ended(502, "coingecko")
                 ELSE IF Truthy(coin_info)
                 THEN [called EXCEPT !.pc = "set", !.metadata = coin_info]
                 ELSE ended(404, "coin")]
    /\ UNCHANGED <<db, nextId, cache, now, catalog, written>>
    /\ SelUnchanged

\* lines 90-91: await redis_client.set(key, json.dumps(coin_info), ex=3600)
CacheSet(t) ==
    /\ task[t].pc = "set"
    /\ \E up \in BOOLEAN :
         LET me == task[t]
         IN  IF ~up
             THEN /\ task' = [task EXCEPT ![t] = Ended(t, 500, "redis")]
                  /\ UNCHANGED <<cache, written>>
             ELSE /\ cache' = RedisSet(CacheKey(me.symbol), Dumps(me.metadata), TTL)
                  /\ task' = [task EXCEPT ![t] =
                        [me EXCEPT !.cw = @ + 1, !.pc = AfterFetch(me.kind)]]
                  \* history; the spelling is kept for the resolver's callers
                  /\ written' = [written EXCEPT ![Upper(me.symbol)] =
                        [at |-> now, coin |-> me.metadata,
                         symbol |-> IF me.kind = "resolve" THEN me.symbol ELSE <<>>]]
    /\ UNCHANGED <<db, nextId, now, catalog>>
    /\ SelUnchanged

----------------------------------------------------------------------------
(* The handlers *)

\* a task that is serving no request takes the next one
Free(t) == task[t].pc \in {"idle", "done", "returned"}

Arrived(kind, id, symbol) ==
    [IdleTask EXCEPT !.kind = kind, !.id = id, !.symbol = symbol]

\* variant: the check compares the spelling the client sent
ExistingRaw(symbol) == \E r \in db : r.symbol = symbol

\* line 100: Crypto.query.where(Crypto.symbol == crypto.symbol.upper()).gino.first()
Existing(symbol) == \E r \in db : r.symbol = Upper(symbol)

\* POST /cryptos arrives; lines 100-103: the existence check
CreateCheck(t, symbol) ==
    /\ Free(t)
    /\ nextId + Cardinality({u \in Tasks : task[u].pc \in {"get", "http", "set", "c_insert"}
                                            /\ task[u].kind = "create"}) <= MaxId
    /\ LET \* history: a row holds this symbol in some spelling
           me == [Arrived("create", 0, symbol) EXCEPT
                     !.dup = \E r \in db : EqIgnoreCase(r.symbol, symbol)]
       IN  task' = [task EXCEPT ![t] =
               IF Existing(symbol)
               THEN [me EXCEPT !.pc = "done", !.status = 409,
                               !.detail = "exists", !.symbol = <<>>]
               ELSE [me EXCEPT !.pc = "get"]]
    /\ UNCHANGED <<db, nextId, cache, now, catalog, written>>
    /\ SelUnchanged

\* variant: the column is not declared unique
NoUniqueViolation(symbol, exceptId) == FALSE

\* INSERT of a row; column symbol is unique=True (line 25)
UniqueViolation(symbol, exceptId) ==
    \E r \in db : r.symbol = symbol /\ r.id # exceptId

\* lines 106-108: Crypto.create(symbol=..., name=..., metadata=...)
CreateInsert(t) ==
    /\ task[t].pc = "c_insert"
    /\ LET me == task[t]
       IN  IF UniqueViolation(Upper(me.symbol), 0)
           THEN /\ task' = [task EXCEPT ![t] = Ended(t, 500, "unique")]
                /\ UNCHANGED <<db, nextId>>
           ELSE /\ db' = db \cup { [id |-> nextId, symbol |-> Upper(me.symbol),
                                    name |-> me.metadata.name,
                                    metadata |-> me.metadata] }
                /\ nextId' = nextId + 1
                /\ task' = [task EXCEPT ![t] =
                      [Ended(t, 200, "ok") EXCEPT !.dbw = @ + 1]]
    /\ UNCHANGED <<cache, now, catalog, written>>
    /\ SelUnchanged

\* CryptoUpdate.symbol: Optional[str] = None; None is modelled as "", both falsy
UpdateSymbols == ReqSymbols \cup { <<>> }

\* variant: the resolve is called whatever the body holds
HasSymbolAlways(symbol) == TRUE

\* line 134: if crypto_data.symbol:
HasSymbol(symbol) == symbol # <<>>

\* PUT /cryptos/{id} arrives; lines 130-135
UpdateLoad(t, id, symbol) ==
    /\ Free(t)
    /\ LET \* history: another row holds this symbol in some spelling
           me == [Arrived("update", id, symbol) EXCEPT
                     !.dup = \E r \in db : r.id # id /\ EqIgnoreCase(r.symbol, symbol),
                     \* history: the body carried no symbol
                     !.bare = Len(symbol) = 0]
       IN  task' = [task EXCEPT ![t] =
               IF ~HasRow(id)
               THEN [me EXCEPT !.pc = "done", !.status = 404, !.detail = "record",
                               !.id = 0]
               ELSE IF HasSymbol(symbol) THEN [me EXCEPT !.pc = "get"]
               ELSE [me EXCEPT !.pc = "u_apply"]]
    /\ UNCHANGED <<db, nextId, cache, now, catalog, written>>
    /\ SelUnchanged

\* lines 138-142: crypto.update(**update_data).apply(), an UPDATE ... WHERE id =
UpdateApply(t) ==
    /\ task[t].pc = "u_apply"
    /\ LET me == task[t]
       IN  IF me.symbol = <<>>
           THEN \* update_data is empty: no column is set, whether the ORM
                \* accepts an UPDATE without values or raises
                /\ \E accepted \in BOOLEAN :
                      task' = [task EXCEPT ![t] =
                          IF accepted THEN Ended(t, 200, "ok")
                          ELSE Ended(t, 500, "novalues")]
                /\ UNCHANGED db
           ELSE IF ~HasRow(me.id)
           THEN /\ task' = [task EXCEPT ![t] = Ended(t, 500, "norow")]
                /\ UNCHANGED db
           ELSE IF UniqueViolation(Upper(me.symbol), me.id)
           THEN /\ task' = [task EXCEPT ![t] = Ended(t, 500, "unique")]
                /\ UNCHANGED db
           ELSE /\ db' = (db \ {Row(me.id)})
                           \cup { [id |-> me.id, symbol |-> Upper(me.symbol),
                                   name |-> me.metadata.name,
                                   metadata |-> me.metadata] }
                /\ task' = [task EXCEPT ![t] =
                      [Ended(t, 200, "ok") EXCEPT !.dbw = @ + 1]]
    /\ UNCHANGED <<nextId, cache, now, catalog, written>>
    /\ SelUnchanged

\* POST /cryptos/{id}/refresh arrives; lines 156-159: crypto = await
\* Crypto.get(crypto_id); the symbol read here is the one fetch_coin_metadata
\* is called with
RefreshLoad(t, id) ==
    /\ Free(t)
    /\ LET me == Arrived("refresh", id, <<>>)
       IN  task' = [task EXCEPT ![t] =
               IF ~HasRow(id)
               THEN [me EXCEPT !.pc = "done", !.status = 404, !.detail = "record",
                               !.id = 0]
               ELSE [me EXCEPT !.pc = "get", !.symbol = Row(id).symbol]]
    /\ UNCHANGED <<db, nextId, cache, now, catalog, written>>
    /\ SelUnchanged

\* line 162: crypto.update(name=..., metadata=...).apply(): only these two
\* columns are set, on the row that has the id now
RefreshApply(t) ==
    /\ task[t].pc = "r_apply"
    /\ LET me == task[t]
       IN  IF ~HasRow(me.id)
           THEN /\ task' = [task EXCEPT ![t] = Ended(t, 500, "norow")]
                /\ UNCHANGED db
           ELSE /\ db' = (db \ {Row(me.id)})
                           \cup { [Row(me.id) EXCEPT !.name = me.metadata.name,
                                                     !.metadata = me.metadata] }
                /\ task' = [task EXCEPT ![t] =
                      [Ended(t, 200, "ok") EXCEPT !.dbw = @ + 1]]
    /\ UNCHANGED <<nextId, cache, now, catalog, written>>
    /\ SelUnchanged

\* DELETE /cryptos/{id} arrives; lines 147-149
DeleteLoad(t, id) ==
    /\ Free(t)
    /\ LET me == Arrived("delete", id, <<>>)
       IN  task' = [task EXCEPT ![t] =
               IF ~HasRow(id)
               THEN [me EXCEPT !.pc = "done", !.status = 404, !.detail = "record",
                               !.id = 0]
               ELSE [me EXCEPT !.pc = "d_delete"]]
    /\ UNCHANGED <<db, nextId, cache, now, catalog, written>>
    /\ SelUnchanged

\* lines 150-151: DELETE ... WHERE id =
DeleteRow(t) ==
    /\ task[t].pc = "d_delete"
    /\ db' = { r \in db : r.id # task[t].id }
    /\ task' = [task EXCEPT ![t] =
          [Ended(t, 200, "ok") EXCEPT !.dbw = @ + (IF HasRow(task[t].id) THEN 1 ELSE 0)]]
    /\ UNCHANGED <<nextId, cache, now, catalog, written>>
    /\ SelUnchanged

----------------------------------------------------------------------------
(* The environment *)

\* Redis drops the keys whose `ex` has run out
Expired(later) == { e \in cache : later >= e.expires }

Passes(seconds) ==
    /\ now + seconds <= MaxTicks * TickLen
    /\ now' = now + seconds
    /\ cache' = cache \ Expired(now')
    /\ written' = [k \in Canon |->
          IF now' < written[k].at + TTL THEN written[k] ELSE NoWrite]
    /\ UNCHANGED <<db, nextId, catalog, task>>
    /\ SelUnchanged

\* half an hour passes
Tick == Passes(TickLen)

\* an hour passes
Hour == Passes(TTL)

\* Coingecko's listing changes
Relist(listings) ==
    /\ \E c \in listings : c # catalog /\ catalog' = c
    /\ UNCHANGED <<db, nextId, cache, now, task, written>>
    /\ SelUnchanged

SourceChange == Relist(Catalogs)

ListingChange == Relist(Listings)

----------------------------------------------------------------------------
(* The service: the handlers run concurrently *)

InitService == Init /\ catalog \in Listings

Next ==
    \/ \E t \in Tasks, s \in ReqSymbols : CreateCheck(t, s)
    \/ \E t \in Tasks : CreateInsert(t)
    \/ \E t \in Tasks, id \in 1..MaxId, s \in UpdateSymbols : UpdateLoad(t, id, s)
    \/ \E t \in Tasks : UpdateApply(t)
    \/ \E t \in Tasks, id \in 1..MaxId : RefreshLoad(t, id)
    \/ \E t \in Tasks : RefreshApply(t)
    \/ \E t \in Tasks, id \in 1..MaxId : DeleteLoad(t, id)
    \/ \E t \in Tasks : DeleteRow(t)
    \/ \E t \in Tasks : CacheGet(t)
    \/ \E t \in Tasks : HttpGet(t)
    \/ \E t \in Tasks : CacheSet(t)
    \/ Hour
    \/ ListingChange

Spec == InitService /\ [][Next]_vars

----------------------------------------------------------------------------
(* The resolver on its own: fetch_coin_metadata under concurrent callers,   *)
(* whatever handler they are (lines 103, 135, 159)                          *)

Resolve(t, symbol) ==
    /\ Free(t)
    /\ task' = [task EXCEPT ![t] =
          [Arrived("resolve", 0, symbol) EXCEPT !.pc = "get"]]
    /\ UNCHANGED <<db, nextId, cache, now, catalog, written>>
    /\ SelUnchanged

NextResolver ==
    \/ \E t \in Tasks, s \in CallSymbols : Resolve(t, s)
    \/ \E t \in Tasks : CacheGet(t)
    \/ \E t \in Tasks : HttpGet(t)
    \/ \E t \in Tasks : CacheSet(t)
    \/ Tick
    \/ SourceChange

ResolverSpec == Init /\ [][NextResolver]_vars

----------------------------------------------------------------------------
(* The selection on its own: line 87 on every answer and symbol *)

InitSelect ==
    /\ db = {}
    /\ nextId = 1
    /\ cache = {}
    /\ now = 0
    /\ catalog = <<>>
    /\ task = [t \in Tasks |-> IdleTask]
    /\ written = [k \in Canon |-> NoWrite]
    /\ selSymbol \in CallSymbols \cup ReqSymbols
    /\ selCoins \in Answers
    /\ selResult = Unselected

Select ==
    /\ selResult = Unselected
    /\ selResult' = FirstMatch(selCoins, selSymbol)
    /\ UNCHANGED <<db, nextId, cache, now, catalog, task, written,
                   selSymbol, selCoins>>

SelectSpec == InitSelect /\ [][Select]_vars

----------------------------------------------------------------------------
(* The resolver's progress. The client of line 52,                          *)
(* redis.from_url(REDIS_URL, decode_responses=True), is given no            *)
(* socket_timeout and the awaits of lines 73 and 90 are not wrapped in a    *)
(* timeout of their own, so a cache that accepts the command and never      *)
(* answers leaves the coroutine waiting. httpx.AsyncClient() of line 78     *)
(* keeps the library's default timeout: the call ends, with an answer or    *)
(* with an exception, which is HttpGet's `raised`.                          *)

\* the awaited GET or SET is never answered
CacheHangs(t) ==
    /\ task[t].pc \in {"get", "set"}
    /\ task' = [task EXCEPT ![t].pc = "hung"]
    /\ UNCHANGED <<db, nextId, cache, now, catalog, written>>
    /\ SelUnchanged

NextLive ==
    \/ \E t \in Tasks, s \in CallSymbols : Resolve(t, s)
    \/ \E t \in Tasks : CacheGet(t)
    \/ \E t \in Tasks : HttpGet(t)
    \/ \E t \in Tasks : CacheSet(t)
    \/ \E t \in Tasks : CacheHangs(t)

\* the event loop resumes every coroutine whose awaited call has ended
LiveSpec ==
    /\ Init
    /\ [][NextLive]_vars
    /\ \A t \in Tasks :
          WF_vars(CacheGet(t)) /\ WF_vars(HttpGet(t)) /\ WF_vars(CacheSet(t))

----------------------------------------------------------------------------
(* Properties *)

Resolving(t) == task[t].kind = "resolve"

\* the request's cache read has been answered
PastGet(t) == task[t].cr = 1

\* C1 (ResolverSpec): a resolve that missed the cache and found a match made
\* exactly one source call and one cache write; a resolve whose cache read
\* comes after a write for the same symbol, less than 3600 s later, makes no
\* source call and no cache write and returns the record that was written.
C1_FirstFetchesSecondHits ==
    \A t \in Tasks :
        LET me == task[t]
        IN  /\ (Resolving(t) /\ me.pc = "returned" /\ ~me.hit)
                  => me.ext = 1 /\ me.cw = 1
            /\ (Resolving(t) /\ PastGet(t) /\ me.seen # NoWrite)
                  => /\ me.pc = "returned"
                     /\ me.hit
                     /\ me.ext = 0
                     /\ me.cw = 0
                     /\ me.metadata = me.seen.coin

C1_Witness ==
    \E t \in Tasks :
        /\ Resolving(t) /\ task[t].pc = "returned" /\ task[t].hit
        /\ task[t].seen.symbol = task[t].symbol
        /\ task[t].seen.at < now

\* C2 (ResolverSpec): a resolve that the source answers without a coin of
\* that symbol ends NotFound and writes nothing; the cache never holds
\* anything but coins; and a resolve with no cache write for its symbol
\* in the last hour misses the cache, so it asks the source.
C2_NoNegativeCaching ==
    /\ \A t \in Tasks :
          LET me == task[t]
          IN  /\ (Resolving(t) /\ me.resp = "ok" /\ ~me.srcHas)
                    => me.pc = "done" /\ me.status = 404 /\ me.cw = 0
              /\ (Resolving(t) /\ me.pc = "done" /\ me.status = 404) => me.cw = 0
              /\ (Resolving(t) /\ PastGet(t) /\ me.seen = NoWrite)
                    => ~me.hit /\ (me.pc = "http" \/ me.ext = 1)
    /\ \A e \in cache : Loads(e.value) \in Candidates

C2_Witness ==
    \E t, u \in Tasks :
        /\ Resolving(t) /\ task[t].pc = "done" /\ task[t].status = 404
        /\ Resolving(u) /\ task[u].symbol = task[t].symbol
        /\ task[u].ext = 1 /\ ~task[u].hit
        /\ cache = {}

\* C3 (Spec): every row's name and metadata are those of a coin with the
\* row's own symbol.
C3_MetadataOfOwnSymbol ==
    \A r \in db :
        /\ EqIgnoreCase(r.metadata.symbol, r.symbol)
        /\ r.name = r.metadata.name

\* C4 (Spec): no two rows hold the same canonical symbol.
C4_UniqueCanonicalSymbol ==
    \A r1, r2 \in db : Upper(r1.symbol) = Upper(r2.symbol) => r1 = r2

\* two creates passed the existence check; the second insert was refused
C4_Witness ==
    \E t \in Tasks :
        /\ task[t].kind = "create" /\ task[t].status = 500
        /\ task[t].detail = "unique"

\* C5 (Spec): a create whose symbol is held by a row, in some spelling, when
\* the request checks, ends 409 with no source call, no cache read or write
\* and no row written.
C5_DuplicateBeforeResolve ==
    \A t \in Tasks :
        LET me == task[t]
        IN  (me.kind = "create" /\ me.dup)
               => /\ me.pc = "done" /\ me.status = 409
                  /\ me.ext = 0 /\ me.cr = 0 /\ me.cw = 0 /\ me.dbw = 0

C5_Witness ==
    \E t \in Tasks :
        /\ task[t].kind = "create" /\ task[t].dup /\ task[t].status = 409
        /\ db # {}

\* C6 (SelectSpec): the selection returns the first coin, in the order of
\* the answer, whose symbol equals the symbol up to case, and None when
\* there is none.
C6_FirstExactMatch ==
    selResult # Unselected =>
        LET exact == { i \in 1..Len(selCoins) :
                          EqIgnoreCase(selCoins[i].symbol, selSymbol) }
        IN  IF exact = {} THEN selResult = NoCoin
            ELSE \E i \in exact : /\ \A j \in exact : i <= j
                                  /\ selResult = selCoins[i]

\* a coin that only starts with the symbol comes first and is passed over
C6_Witness ==
    /\ selResult # Unselected
    /\ selSymbol = <<"a">>
    /\ Len(selCoins) >= 2
    /\ selCoins[1].symbol = <<"A", "2">>
    /\ selResult = selCoins[2]

\* C7 (ResolverSpec): two spellings of a symbol share the cache key; a
\* resolve whose cache read comes less than 3600 s after a write made
\* under another spelling is a hit with no source call.
C7_KeyIgnoresCase ==
    \A t \in Tasks :
        LET me == task[t]
        IN  (Resolving(t) /\ PastGet(t) /\ me.seen # NoWrite
                /\ me.seen.symbol # me.symbol)
               => /\ CacheKey(me.symbol) = CacheKey(me.seen.symbol)
                  /\ me.hit /\ me.ext = 0
                  /\ me.metadata = me.seen.coin

C7_Witness ==
    \E t \in Tasks :
        /\ Resolving(t) /\ task[t].hit
        /\ task[t].seen # NoWrite
        /\ task[t].seen.symbol # task[t].symbol

\* C8 (Spec): a request whose source call was answered with a status other
\* than 200 ends 502, not 404, having written neither the cache nor a row.
C8_BadStatusIs502 ==
    \A t \in Tasks :
        LET me == task[t]
        IN  me.resp = "status"
               => /\ me.pc = "done" /\ me.status = 502 /\ me.status # 404
                  /\ me.cw = 0 /\ me.dbw = 0

C8_Witness ==
    \E t \in Tasks :
        /\ task[t].kind = "refresh" /\ task[t].resp = "status"
        /\ task[t].status = 502

\* C9 (Spec): a request whose source call raised instead of answering ends
\* as one answered with a bad status does, 502, having written neither the
\* cache nor a row.
C9_TransportFailureIs502 ==
    \A t \in Tasks :
        LET me == task[t]
        IN  me.resp = "transport"
               => /\ me.pc = "done" /\ me.status = 502 /\ me.status # 404
                  /\ me.cw = 0 /\ me.dbw = 0

\* C10 as claimed (Spec): a refresh that gets its answer while the source
\* lists no coin of the row's symbol ends 404 and leaves the row alone,
\* whatever the cache holds.
C10_RefreshOfDelistedIs404 ==
    \A t \in Tasks :
        LET me == task[t]
        IN  (me.kind = "refresh" /\ me.pc = "done" /\ ~me.srcHas
                /\ (me.hit \/ me.resp = "ok"))
               => me.status = 404 /\ me.dbw = 0

\* C10 as amended (Spec): a refresh that misses the cache and is answered
\* by the source without a coin of the row's symbol ends 404 and leaves
\* the row alone.
C10_RefreshMissOfDelistedIs404 ==
    \A t \in Tasks :
        LET me == task[t]
        IN  (me.kind = "refresh" /\ ~me.hit /\ me.resp = "ok" /\ ~me.srcHas)
               => /\ me.pc = "done" /\ me.status = 404
                  /\ me.dbw = 0 /\ me.cw = 0

C10_Witness ==
    \E t \in Tasks :
        /\ task[t].kind = "refresh" /\ task[t].pc = "done"
        /\ task[t].status = 404 /\ task[t].detail = "coin"
        /\ ~task[t].hit /\ task[t].resp = "ok"
        /\ db # {}

\* C11 (Spec): a create, update or refresh whose source call is answered
\* with a bad status, or without a coin of the symbol, ends 502 or 404 and
\* has written no row.
C11_FailedResolveWritesNoRow ==
    \A t \in Tasks :
        LET me == task[t]
        IN  (/\ me.kind \in {"create", "update", "refresh"}
             /\ (me.resp = "status" \/ (me.resp = "ok" /\ ~me.srcHas)))
               => /\ me.pc = "done"
                  /\ me.status = (IF me.resp = "status" THEN 502 ELSE 404)
                  /\ me.dbw = 0

C11_Witness ==
    \E t \in Tasks :
        /\ task[t].kind = "update" /\ task[t].pc = "done"
        /\ task[t].resp = "ok" /\ ~task[t].srcHas /\ task[t].status = 404
        /\ db # {}

\* C12 (Spec): a cache read is a hit exactly when the symbol was written
\* less than 3600 seconds before it, and a read that is not a hit goes on to
\* the source; every entry expires 3600 seconds after its last write, neither
\* later (no hit extends it) nor earlier (no handler, DELETE included,
\* removes it).
C12_EntryLivesOneHour ==
    /\ \A t \in Tasks :
          task[t].cr = 1 =>
              /\ task[t].hit <=> task[t].fresh
              /\ ~task[t].fresh => (task[t].pc = "http" \/ task[t].ext = 1)
    /\ \A k \in Canon :
          written[k] # NoWrite =>
              \E e \in cache :
                  /\ e.key = <<"coingecko:">> \o Lower(k)
                  /\ e.value = <<written[k].coin.symbol, written[k].coin.name>>
                  /\ e.expires = written[k].at + 3600
    /\ \A e \in cache :
          \E k \in Canon :
              /\ written[k] # NoWrite
              /\ e.key = <<"coingecko:">> \o Lower(k)
              /\ e.expires = written[k].at + 3600

\* a refresh after the hour misses and asks the source again, and a DELETE
\* has ended without emptying the cache
C12_Witness ==
    /\ now >= 3600
    /\ \E t \in Tasks :
          /\ task[t].kind = "refresh" /\ task[t].cr = 1
          /\ ~task[t].hit /\ task[t].ext = 1
    /\ \E t \in Tasks :
          /\ task[t].kind = "delete" /\ task[t].status = 200
    /\ cache # {}

\* C13 (Spec): a request whose cache read found the cache unreachable has
\* ended with the server error, without a source call, without a cache write
\* and without a write to the record store.
C13_CacheDownFailsFirst ==
    \A t \in Tasks :
        task[t].down =>
            /\ task[t].pc = "done" /\ task[t].status = 500
            /\ task[t].ext = 0 /\ task[t].cw = 0 /\ task[t].dbw = 0

C13_Witness ==
    \E t \in Tasks :
        /\ task[t].kind = "update" /\ task[t].down /\ task[t].status = 500
        /\ task[t].ext = 0 /\ db # {}

\* C14 (Spec): no stored symbol ever holds a lower-case letter, and the step
\* that ends a create with 200 adds one row whose symbol is the requested one
\* in upper case and whose name and metadata are the coin the resolve
\* returned, a coin of that symbol.
C14_CreateStoresCanonical ==
    /\ [](\A r \in db : \A i \in 1..Len(r.symbol) : r.symbol[i] # "a")
    /\ [][\A t \in Tasks :
            (task[t].pc = "c_insert" /\ task'[t].status = 200) =>
                \E r \in db' \ db :
                    /\ db' = db \cup {r}
                    /\ EqIgnoreCase(r.symbol, task[t].symbol)
                    /\ \A i \in 1..Len(r.symbol) : r.symbol[i] # "a"
                    /\ r.metadata = task[t].metadata
                    /\ r.metadata \in Candidates
                    /\ EqIgnoreCase(r.metadata.symbol, task[t].symbol)
                    /\ r.name = r.metadata.name]_vars

\* the only request so far, a create of "a", has stored "A"
C14_Witness ==
    \E t \in Tasks :
        /\ task[t].kind = "create" /\ task[t].status = 200
        /\ \A u \in Tasks \ {t} : task[u] = IdleTask
        /\ nextId = 2
        /\ \E r \in db : r.symbol = <<"A">>

C16_DuplicateIsConflict ==
    \A t \in Tasks :
        (/\ task[t].kind \in {"create", "update"}
         /\ task[t].dup /\ task[t].pc = "done"
         /\ task[t].kind = "update" => (task[t].hit \/ task[t].cw = 1))
           => task[t].status = 409 /\ task[t].dbw = 0

\* C17 (LiveSpec): every resolve that has been called eventually returns a
\* record or ends with an error.
C17_ResolveCompletes ==
    \A t \in Tasks :
        (task[t].pc = "get") ~> (task[t].pc \in {"returned", "done"})

\* C18 (ResolverSpec): a resolve never makes more than one source call nor
\* more than one cache write; once the source call has failed or has found no
\* coin of the symbol the resolve has ended, with that one call and no write.
C18_AtMostOneCallOneWrite ==
    \A t \in Tasks :
        Resolving(t) =>
            /\ task[t].ext <= 1 /\ task[t].cw <= 1
            /\ task[t].cw = 1 => (task[t].ext = 1 /\ task[t].pc = "returned")
            /\ (\/ task[t].resp \in {"transport", "status"}
                \/ (task[t].resp = "ok" /\ ~task[t].srcHas))
                  => task[t].pc = "done" /\ task[t].ext = 1 /\ task[t].cw = 0

C18_Witness ==
    \E t, u \in Tasks :
        /\ Resolving(t) /\ task[t].resp = "status" /\ task[t].pc = "done"
        /\ task[t].ext = 1
        /\ Resolving(u) /\ task[u].pc = "returned" /\ task[u].cw = 1

\* C19 (ResolverSpec): every live cache entry has a key made of the prefix
\* and a symbol without upper-case letters, and holds a coin whose symbol is
\* that symbol up to the case of its letters.
C19_EntryMatchesItsKey ==
    \A e \in cache :
        now < e.expires =>
            /\ Head(e.key) = "coingecko:"
            /\ \A i \in 2..Len(e.key) : e.key[i] # "A"
            /\ EqIgnoreCase(Tail(e.key), e.value[1])

\* the coin "A" is held under the key of "a"
C19_Witness ==
    \E e \in cache :
        /\ now < e.expires
        /\ e.key = <<"coingecko:", "a">>
        /\ e.value[1] = <<"A">>

\* C20 (Spec): an update whose body carried no symbol has read no cache
\* entry, made no source call, written no cache entry and written no row.
C20_BareUpdateTouchesNothing ==
    \A t \in Tasks :
        (task[t].kind = "update" /\ task[t].bare) =>
            /\ task[t].cr = 0 /\ task[t].ext = 0 /\ task[t].cw = 0
            /\ task[t].dbw = 0
            /\ ~task[t].down
            /\ task[t].pc \in {"u_apply", "done"}

C20_Witness ==
    \E t \in Tasks :
        /\ task[t].kind = "update" /\ task[t].bare
        /\ task[t].pc = "done" /\ task[t].status = 200
        /\ db # {}

====
